---- MODULE Spec2Model ----
(***************************************************************************)
(* Model of the errbot AWS plugin (aws.py).  Every chat command handler is *)
(* a synchronous procedure, so each handler is one atomic action.  The     *)
(* cloud provider (libcloud driver), the RSS feed and the process-wide     *)
(* socket default timeout are the environment the handlers act upon.       *)
(*                                                                         *)
(* A handler invocation leaves behind                                      *)
(*   last  - the command that was invoked and how the handler ended        *)
(*           ("returned" or the name of the exception that left it), and   *)
(*   trace - the ordered events of that invocation: SDK calls ("call")     *)
(*           and chat messages ("send").                                   *)
(* The SDK calls list_nodes, reboot and destroy are modelled as returning  *)
(* (reboot/destroy with a truthy or falsy result); list_sizes' lookup and  *)
(* create_node may fail.                                                   *)
(***************************************************************************)
EXTENDS Integers, Sequences, FiniteSets, TLC

VARIABLES config, loaded, cloud, nextId, sockTimeout, last, trace

vars == <<config, loaded, cloud, nextId, sockTimeout, last, trace>>

(* ---------------------------------------------------------------- bounds *)
\* number of nodes the cloud creates in one behaviour
MaxCreates == 1
\* longest RSS feed
MaxFeed == 2
\* largest |--entries| value tried
MaxEntries == 2

(* ------------------------------------------------------- optional values *)
\* An option that was not on the command line / a Python None: <<>>.
\* A value v that is present: <<v>>.
Absent == <<>>
Some(v) == <<v>>
IsNone(o) == Len(o) = 0
\* optparse: the option's value when given, else the default
OrDefault(o, d) == IF IsNone(o) THEN d ELSE o[1]

Min(a, b) == IF a <= b THEN a ELSE b
Max(a, b) == IF a >= b THEN a ELSE b

(* --------------------------------------------------------- configuration *)
\* get_configuration_template: the keys of the configuration mapping.
\* 'puppet' is the only key whose both values matter to a handler.
Configs ==
  { [ access_id      |-> "AKIA",
      secret_key     |-> "secret",
      ami            |-> "ami-cfg",
      keypair        |-> "key-cfg",
      subnet_id      |-> "subnet-cfg",
      route_table_id |-> "rtb-cfg",
      volume_size    |-> 1,
      instance_type  |-> "t2.small",
      datacenter     |-> "ec2_us_east",
      puppet         |-> p ] : p \in BOOLEAN }

(* ------------------------------------------------------------- the cloud *)
VmNames == {"log1", "web1"}

\* driver.list_sizes(): the ids of the sizes the provider offers
Sizes == <<"t2.small", "t2.medium">>

\* the node the provider holds before the plugin runs
SeedNode ==
  [ id            |-> "i-0",
    name          |-> "log1",
    state         |-> "running",
    private_ips   |-> <<"10.0.0.0">>,
    public_ips    |-> <<>>,
    groups        |-> <<"default">>,
    key_name      |-> "key-cfg",
    instance_type |-> "t2.small" ]

\* the node the provider builds for create_node(name, size, ex_keyname)
NewNode(n, name, sizeId, keyname) ==
  [ id            |-> "i-" \o ToString(n),
    name          |-> name,
    state         |-> "pending",
    private_ips   |-> <<"10.0.0." \o ToString(n)>>,
    public_ips    |-> <<>>,
    groups        |-> <<"default">>,
    key_name      |-> keyname,
    instance_type |-> sizeId ]

\* the sequence s without its i-th element
RemoveAt(s, i) == SubSeq(s, 1, i - 1) \o SubSeq(s, i + 1, Len(s))

(* ---------------------------------------------------------------- events *)
CallEv(op, arg) == [kind |-> "call", op |-> op, arg |-> arg]
\* self.send(msg.frm, text, ...): text is the formatted string; a dict that
\* str.format renders into the text is kept as obj (<<>> when there is none)
SendEv(text, obj, reply) ==
  [kind |-> "send", text |-> text, obj |-> obj, in_reply_to |-> reply]

Sends(tr) == SelectSeq(tr, LAMBDA e : e.kind = "send")
Calls(tr, op) == SelectSeq(tr, LAMBDA e : e.kind = "call" /\ e.op = op)

(* -------------------------------------------------------- instance lookup *)
\* a lookup that takes the first listed node whatever its name
FindFirstListed(nodes, name) ==
  IF Len(nodes) > 0 THEN 1 ELSE 0

\* _find_instance_by_name: index of the first listed node with that name,
\* 0 when the loop ends without returning (the method returns None)
_find_instance_by_name(nodes, name) ==
  IF \E i \in 1..Len(nodes) : nodes[i].name = name
  THEN CHOOSE i \in 1..Len(nodes) :
         /\ nodes[i].name = name
         /\ \A j \in 1..(i - 1) : nodes[j].name # name
  ELSE 0

\* NodeState.tostring: the upper-case name of a node state
NodeStateToString(state) ==
  CASE state = "running"    -> "RUNNING"
    [] state = "pending"    -> "PENDING"
    [] state = "terminated" -> "TERMINATED"
    [] OTHER                -> "UNKNOWN"

\* _basic_instance_details
_basic_instance_details(nodes, name) ==
  LET i == _find_instance_by_name(nodes, name) IN
  IF i # 0
  THEN [ id              |-> nodes[i].id,
         status          |-> NodeStateToString(nodes[i].state),
         ip_private      |-> nodes[i].private_ips,
         ip_public       |-> nodes[i].public_ips,
         security_groups |-> nodes[i].groups,
         keypair         |-> nodes[i].key_name,
         instance_type   |-> nodes[i].instance_type ]
  ELSE [ error |-> "instance named " \o name \o " not found." ]

(* ------------------------------------------------------------------ Init *)
Init ==
  /\ config \in Configs
  /\ loaded = config
  /\ cloud \in {<<>>, <<SeedNode>>}
  /\ nextId = 1
  /\ sockTimeout = Absent
  /\ last = [handler |-> "none", outcome |-> "returned"]
  /\ trace = <<>>

(* -------------------------------------------------------------- aws_info *)
aws_info(vmname) ==
  /\ trace' = << CallEv("list_nodes", <<>>),
                 SendEv(vmname \o ": ",
                        Some(_basic_instance_details(cloud, vmname)), TRUE) >>
  /\ last' = [handler |-> "info", outcome |-> "returned", name |-> vmname]
  /\ UNCHANGED <<config, loaded, cloud, nextId, sockTimeout>>

(* ------------------------------------------------------------ aws_reboot *)
RebootResponse(result) ==
  IF result THEN "Successfully sent request to reboot."
            ELSE "Unable to complete request."

\* result: what vm.reboot() returns.  A reboot request leaves the node listed.
aws_reboot(args, result) ==
  LET i == _find_instance_by_name(cloud, args) IN
  /\ IF i = 0
     THEN \* vm is None: vm.reboot() raises AttributeError
          /\ trace' = << CallEv("list_nodes", <<>>) >>
          /\ last' = [handler |-> "reboot", outcome |-> "AttributeError",
                      name |-> args, found |-> FALSE, result |-> result]
     ELSE /\ trace' = << CallEv("list_nodes", <<>>),
                         CallEv("reboot", cloud[i].id),
                         SendEv(cloud[i].name \o ": " \o RebootResponse(result),
                                Absent, FALSE) >>
          /\ last' = [handler |-> "reboot", outcome |-> "returned",
                      name |-> args, found |-> TRUE, result |-> result]
  /\ UNCHANGED <<config, loaded, cloud, nextId, sockTimeout>>

(* --------------------------------------------------------- aws_terminate *)
\* a response that ignores the SDK result
TerminateResponseAlwaysOk(result) ==
  "Successfully sent request to terminate instance."

TerminateResponse(result) ==
  IF result THEN "Successfully sent request to terminate instance."
            ELSE "Unable to complete request."

\* result: what vm.destroy() returns.  A destroy the provider accepts takes
\* the node off the provider's list.
aws_terminate(args, result) ==
  LET i == _find_instance_by_name(cloud, args) IN
  /\ IF i = 0
     THEN \* vm is None: vm.destroy() raises AttributeError
          /\ trace' = << CallEv("list_nodes", <<>>) >>
          /\ last' = [handler |-> "terminate", outcome |-> "AttributeError",
                      name |-> args, found |-> FALSE, result |-> result]
          /\ cloud' = cloud
     ELSE /\ trace' = << CallEv("list_nodes", <<>>),
                         CallEv("destroy", cloud[i].id),
                         SendEv(cloud[i].name \o ": " \o TerminateResponse(result),
                                Absent, TRUE) >>
          /\ last' = [handler |-> "terminate", outcome |-> "returned",
                      name |-> args, found |-> TRUE, result |-> result]
          /\ cloud' = IF result THEN RemoveAt(cloud, i) ELSE cloud
  /\ UNCHANGED <<config, loaded, nextId, sockTimeout>>

(* ------------------------------------------------------------ aws_create *)
\* --size default (line 156)
DefaultSize == 15

\* A command line of aws_create: each option Absent or Some(value); puppet is
\* whether the --puppet flag is on the line; positional are the remaining
\* arguments; malformed stands for a line optparse rejects (an unknown
\* option, --size=abc), on which parser.error raises SystemExit.
TagLists ==
  { << <<"env", "prod">> >>,
    << <<"env", "prod">>, <<"team", "web">> >> }

CreateCmdsAll ==
  [ ami            : {Absent, Some("ami-cli")},
    size           : {Absent},
    subnet_id      : {Absent, Some("subnet-cli")},
    route_table_id : {Absent},
    instance_type  : {Absent, Some("t2.medium"), Some("m9.bogus")},
    tags           : {Absent} \cup {Some(t) : t \in TagLists},
    keypair        : {Absent, Some("key-cli")},
    puppet         : BOOLEAN,
    positional     : {<<>>} \cup {<<n>> : n \in VmNames},
    malformed      : BOOLEAN ]

PlainCmd(c) ==
  /\ IsNone(c.ami) /\ IsNone(c.subnet_id) /\ IsNone(c.instance_type)
  /\ IsNone(c.tags) /\ IsNone(c.keypair) /\ ~c.puppet

\* how many of the valued options a line gives
GivenCount(c) ==
  Len(c.ami) + Len(c.subnet_id) + Len(c.instance_type) + Len(c.tags)
    + Len(c.keypair)

\* the lines tried: at most one valued option (with or without --puppet);
\* a rejected line or one without a vm name carries no further options, as
\* these leave the handler before any option is used
CreateCmds ==
  { c \in CreateCmdsAll :
      /\ GivenCount(c) <= 1
      /\ (c.malformed \/ c.positional = <<>>) =>
            (PlainCmd(c) /\ ~(c.malformed /\ c.positional = <<>>)) }

\* an option table whose --keypair default is a literal instead of the
\* configured key pair
ParseCreateOptionsLiteralKeypair(cfg, c) ==
  [ ami            |-> OrDefault(c.ami, cfg.ami),
    size           |-> OrDefault(c.size, DefaultSize),
    subnet_id      |-> OrDefault(c.subnet_id, cfg.subnet_id),
    route_table_id |-> OrDefault(c.route_table_id, cfg.route_table_id),
    instance_type  |-> OrDefault(c.instance_type, cfg.instance_type),
    tags           |-> c.tags,
    keypair        |-> OrDefault(c.keypair, "my-key"),
    puppet         |-> IF c.puppet THEN FALSE ELSE cfg.puppet ]

\* parser.add_option(...) x 8 and parser.parse_args: the options dict.
\* --puppet is declared action="store_false": the flag stores False.
ParseCreateOptions(cfg, c) ==
  [ ami            |-> OrDefault(c.ami, cfg.ami),
    size           |-> OrDefault(c.size, DefaultSize),
    subnet_id      |-> OrDefault(c.subnet_id, cfg.subnet_id),
    route_table_id |-> OrDefault(c.route_table_id, cfg.route_table_id),
    instance_type  |-> OrDefault(c.instance_type, cfg.instance_type),
    tags           |-> c.tags,
    keypair        |-> OrDefault(c.keypair, cfg.keypair),
    puppet         |-> IF c.puppet THEN FALSE ELSE cfg.puppet ]

\* EC2SubnetAssociation(id, route_table_id, subnet_id, main=True)
Network(options) ==
  [ id             |-> options.subnet_id,
    route_table_id |-> options.route_table_id,
    subnet_id      |-> options.subnet_id,
    main           |-> TRUE ]

BlockDevMappings(options) ==
  << [ VirtualName |-> Absent,
       Ebs         |-> [ VolumeSize          |-> options.size,
                         VolumeType          |-> "standard",
                         DeleteOnTermination |-> "true" ],
       DeviceName  |-> "/dev/sda" ] >>

BaseTags(vmname) == [Name |-> vmname, team |-> "systems"]

\* The tag loop (lines 195-197).  Its body reads the name `keys`, which is
\* bound nowhere (the loop variable is t_tags): the first iteration raises
\* NameError, and str.split(',') always yields at least one item.
TagLoop(base, tags) ==
  IF IsNone(tags)
  THEN [raised |-> FALSE, tags |-> base]
  ELSE [raised |-> TRUE,  tags |-> base]

\* [s for s in sizes if s.id == options['instance_type']]
SizeMatches(instance_type) ==
  SelectSeq(Sizes, LAMBDA s : s = instance_type)

CreateNodeArgs(vmname, options, size, metadata) ==
  [ name                   |-> vmname,
    image                  |-> options.ami,
    size                   |-> size,
    ex_keyname             |-> options.keypair,
    ex_subnet              |-> Network(options),
    ex_blockdevicemappings |-> BlockDevMappings(options),
    ex_metadata            |-> metadata ]

\* the progress messages with the first one sent after the post-setup one
CreateMessagesMisordered(vmname, options, nodes) ==
  << SendEv(vmname \o ": [2/3] Running post setup", Absent, TRUE),
     SendEv(vmname \o ": [1/3] Creating instance", Absent, TRUE) >>
  \o (IF options.puppet
      THEN << SendEv(vmname \o ": Running puppet [disabled]", Absent, TRUE) >>
      ELSE << >>)
  \o << SendEv(vmname \o ": [3/3] Request completed", Absent, TRUE),
        CallEv("list_nodes", <<>>),
        SendEv(vmname \o ": ",
               Some(_basic_instance_details(nodes, vmname)), TRUE) >>

\* the self.send calls of lines 214-245, nodes being the provider's list
\* when _basic_instance_details runs
CreateMessages(vmname, options, nodes) ==
  << SendEv(vmname \o ": [1/3] Creating instance", Absent, TRUE),
     SendEv(vmname \o ": [2/3] Running post setup", Absent, TRUE) >>
  \o (IF options.puppet
      THEN << SendEv(vmname \o ": Running puppet [disabled]", Absent, TRUE) >>
      ELSE << >>)
  \o << SendEv(vmname \o ": [3/3] Request completed", Absent, TRUE),
        CallEv("list_nodes", <<>>),
        SendEv(vmname \o ": ",
               Some(_basic_instance_details(nodes, vmname)), TRUE) >>

CreateEnds(c, outcome, tr) ==
  /\ last' = [handler |-> "create", outcome |-> outcome, cmd |-> c]
  /\ trace' = tr

\* created: whether driver.create_node returns a node (else it raises);
\* the provider lists the new node after the ones it already holds
aws_create(c, created) ==
  LET options == ParseCreateOptions(config, c)
      vmname  == c.positional[1]
      tagged  == TagLoop(BaseTags(vmname), options.tags)
      matches == SizeMatches(options.instance_type)
      cargs   == CreateNodeArgs(vmname, options, matches[1], tagged.tags)
      node    == NewNode(nextId, vmname, matches[1], options.keypair)
      nodes   == Append(cloud, node)
  IN
  /\ IF c.malformed
       THEN CreateEnds(c, "SystemExit", <<>>)
            /\ UNCHANGED <<cloud, nextId>>
     ELSE IF c.positional = <<>>
       THEN CreateEnds(c, "IndexError", <<>>)
            /\ UNCHANGED <<cloud, nextId>>
     ELSE IF tagged.raised
       THEN CreateEnds(c, "NameError", <<>>)
            /\ UNCHANGED <<cloud, nextId>>
     ELSE IF Len(matches) = 0
       THEN CreateEnds(c, "IndexError",
                       << CallEv("list_sizes", <<>>) >>)
            /\ UNCHANGED <<cloud, nextId>>
     ELSE IF ~created
       THEN CreateEnds(c, "SDKError",
                       << CallEv("list_sizes", <<>>),
                          CallEv("create_node", cargs) >>)
            /\ UNCHANGED <<cloud, nextId>>
     ELSE /\ nextId <= MaxCreates
          /\ cloud' = nodes
          /\ nextId' = nextId + 1
          /\ CreateEnds(c, "returned",
                        << CallEv("list_sizes", <<>>),
                           CallEv("create_node", cargs) >>
                        \o CreateMessages(vmname, options, nodes))
  /\ UNCHANGED <<config, loaded, sockTimeout>>

(* ------------------------------------------------------------ aws_status *)
\* --timeout and --entries defaults (lines 274, 276)
DefaultTimeout == 5
DefaultEntries == 1

\* the entries the feed can hold, newest first
FeedEntries ==
  << [published |-> "Mon", title |-> "Degraded", summary |-> "errors"],
     [published |-> "Tue", title |-> "Resolved", summary |-> "ok"],
     [published |-> "Wed", title |-> "Info", summary |-> "note"],
     [published |-> "Thu", title |-> "Outage", summary |-> "down"] >>

StatusCmdsAll ==
  [ service : {Absent, Some("s3")},
    timeout : {Absent, Some(2)},
    region  : {Absent},
    entries : {Absent} \cup {Some(n) : n \in (0 - MaxEntries)..MaxEntries} ]

\* the lines tried: at most one option
StatusCmds ==
  { c \in StatusCmdsAll : Len(c.service) + Len(c.timeout) + Len(c.entries) <= 1 }

ParseStatusOptions(c) ==
  [ service |-> OrDefault(c.service, "ec2"),
    timeout |-> OrDefault(c.timeout, DefaultTimeout),
    region  |-> OrDefault(c.region, "us-east-1"),
    entries |-> OrDefault(c.entries, DefaultEntries) ]

AwsUrl(options) ==
  "http://status.aws.amazon.com/rss/" \o options.service \o "-"
     \o options.region \o ".rss"

\* a slice that treats a negative bound as 0
SliceToClamped(s, n) ==
  SubSeq(s, 1, Min(Max(n, 0), Len(s)))

\* Python's s[:n]
SliceTo(s, n) ==
  IF n >= 0 THEN SubSeq(s, 1, Min(n, Len(s)))
            ELSE SubSeq(s, 1, Max(Len(s) + n, 0))

\* '{0}. ({1}) {2} - {3}'.format(count, published, title, summary)
FormatEntry(count, result) ==
  ToString(count) \o ". (" \o result.published \o ") " \o result.title
     \o " - " \o result.summary

\* ' '.join(response)
RECURSIVE Join(_)
Join(response) ==
  IF Len(response) = 0 THEN ""
  ELSE IF Len(response) = 1 THEN response[1]
  ELSE response[1] \o " " \o Join(Tail(response))

\* the loop of _parse_status_results: count starts at 1
_parse_status_results(results) ==
  Join([i \in 1..Len(results) |-> FormatEntry(i, results[i])])

\* feed: feeds['entries'] as feedparser.parse returns it
aws_status(c, feed) ==
  LET options == ParseStatusOptions(c)
      aws_url == AwsUrl(options)
      content == _parse_status_results(SliceTo(feed, options.entries))
                    \o " Source: " \o aws_url
  IN
  /\ sockTimeout' = Some(options.timeout)
  /\ trace' = << CallEv("feedparser.parse", aws_url),
                 IF Len(feed) < 1
                 THEN SendEv("No entries found.", Absent, TRUE)
                 ELSE SendEv(content, Absent, TRUE) >>
  /\ last' = [handler |-> "status", outcome |-> "returned", cmd |-> c,
              feed |-> feed, before |-> sockTimeout]
  /\ UNCHANGED <<config, loaded, cloud, nextId>>

Feeds == {SubSeq(FeedEntries, 1, n) : n \in 0..MaxFeed}

Next ==
  \/ \E n \in VmNames : aws_info(n)
  \/ \E n \in VmNames, r \in BOOLEAN : aws_reboot(n, r)
  \/ \E n \in VmNames, r \in BOOLEAN : aws_terminate(n, r)
  \/ \E c \in CreateCmds, created \in BOOLEAN : aws_create(c, created)
  \/ \E c \in StatusCmds, feed \in Feeds : aws_status(c, feed)

Spec == Init /\ [][Next]_vars

(* ================================================================ claims *)
SentNow == Sends(trace)
SentTexts == [i \in 1..Len(SentNow) |-> SentNow[i].text]
NamedNodes(name) == {i \in 1..Len(cloud) : cloud[i].name = name}

\* the seven fields aws_info shows of a node
Descriptor(node) ==
  [ id              |-> node.id,
    status          |-> NodeStateToString(node.state),
    ip_private      |-> node.private_ips,
    ip_public       |-> node.public_ips,
    security_groups |-> node.groups,
    keypair         |-> node.key_name,
    instance_type   |-> node.instance_type ]

NotFoundDict(name) == [error |-> "instance named " \o name \o " not found."]

(* C1: every aws_reboot / aws_terminate invocation sends exactly one       *)
(* success/failure message, also when no instance has the given name.      *)
(* The code calls vm.reboot() / vm.destroy() on None there and sends       *)
(* nothing.                                                                *)
C1_EveryInvocationReports ==
  last.handler \in {"reboot", "terminate"} => Len(SentNow) = 1

(* C2: after aws_status returns, on either path, the socket default        *)
(* timeout is what it was before the call.  The code saves the old value   *)
(* and never puts it back.                                                 *)
C2_TimeoutRestored ==
  last.handler = "status" => sockTimeout = last.before

(* C3: aws_create with --tags calls create_node exactly once with          *)
(* ex_metadata = {'Name': vmname, 'team': 'systems'} updated left to right *)
(* with the pairs of the tag string; without --tags the metadata is the    *)
(* base dict.  The case is a well-formed line with a vm name and an        *)
(* instance type the provider offers, and a provider that creates the node.*)
RECURSIVE ApplyTags(_, _)
ApplyTags(d, items) ==
  IF Len(items) = 0 THEN d
  ELSE ApplyTags((items[1][1] :> items[1][2]) @@ d, Tail(items))

ExpectedMetadata(c) ==
  IF IsNone(c.tags) THEN [Name |-> c.positional[1], team |-> "systems"]
  ELSE ApplyTags([Name |-> c.positional[1], team |-> "systems"], c.tags[1])

CreateCase ==
  /\ last.handler = "create"
  /\ ~last.cmd.malformed
  /\ last.cmd.positional # <<>>
  /\ last.cmd.instance_type # Some("m9.bogus")

\* C3: a line that reaches the driver makes one create_node call whose
\* ex_metadata is the base dict updated with the tag pairs
C3_TagsReachCreateNode ==
  (CreateCase /\ last.outcome # "SDKError") =>
     /\ Len(Calls(trace, "create_node")) = 1
     /\ Calls(trace, "create_node")[1].arg.ex_metadata = ExpectedMetadata(last.cmd)

(* C4: --puppet means "run puppet": a created instance gets the            *)
(* 'Running puppet [disabled]' message between [2/3] and [3/3] exactly     *)
(* when --puppet is on the line or config['puppet'] is true.  The option   *)
(* is declared store_false, so the flag turns the step off.                *)
PuppetText(vmname) == vmname \o ": Running puppet [disabled]"

PuppetStepTaken ==
  \E i \in 2..(Len(SentTexts) - 1) :
     /\ SentTexts[i] = PuppetText(last.cmd.positional[1])
     /\ SentTexts[i - 1] = last.cmd.positional[1] \o ": [2/3] Running post setup"
     /\ SentTexts[i + 1] = last.cmd.positional[1] \o ": [3/3] Request completed"

\* C4: the puppet step is taken exactly when --puppet is given or
\* config['puppet'] is true
C4_PuppetFlagRunsPuppet ==
  (last.handler = "create" /\ last.outcome = "returned") =>
     (PuppetStepTaken <=> (last.cmd.puppet \/ config.puppet))

(* C5: aws_info lists the provider's nodes at call time and sends exactly  *)
(* one message: the descriptor of a node now named <name> when there is    *)
(* one, else the 'not found' dict; never a node the provider no longer     *)
(* lists.                                                                  *)
C5_InfoReportsLiveNode ==
  last.handler = "info" =>
     /\ Len(Calls(trace, "list_nodes")) = 1
     /\ Len(SentNow) = 1
     /\ SentNow[1].text = last.name \o ": "
     /\ IF NamedNodes(last.name) # {}
        THEN \E i \in NamedNodes(last.name) :
                SentNow[1].obj = <<Descriptor(cloud[i])>>
        ELSE SentNow[1].obj = <<NotFoundDict(last.name)>>

\* aws_info shows the node created in this run, the only node listed
C5_Witness ==
  /\ last.handler = "info"
  /\ last.name = "log1"
  /\ Len(cloud) = 1
  /\ cloud[1].id = "i-1"
  /\ SentNow[1].obj = <<Descriptor(cloud[1])>>

(* C6: aws_status sends one message: 'No entries found.' for an empty      *)
(* feed, else min(N, L) numbered items and the source url (N = 1 without   *)
(* --entries), for every integer N.                                        *)
StatusN == OrDefault(last.cmd.entries, 1)
StatusUrl ==
  "http://status.aws.amazon.com/rss/" \o OrDefault(last.cmd.service, "ec2")
     \o "-us-east-1.rss"

ItemText(i, e) ==
  ToString(i) \o ". (" \o e.published \o ") " \o e.title \o " - " \o e.summary

\* items 1..k of the feed, each numbered by its place, separated by blanks
RECURSIVE ItemsText(_, _)
ItemsText(feed, k) ==
  IF k <= 0 THEN ""
  ELSE IF k = 1 THEN ItemText(1, feed[1])
  ELSE ItemsText(feed, k - 1) \o " " \o ItemText(k, feed[k])

StatusSends(k) ==
  /\ Len(SentNow) = 1
  /\ IF Len(last.feed) = 0
     THEN SentNow[1].text = "No entries found."
     ELSE SentNow[1].text = ItemsText(last.feed, k) \o " Source: " \o StatusUrl

\* C6 as stated: one message, with min(N, L) items for every integer N
C6_MinItemsForEveryN ==
  last.handler = "status" => StatusSends(Min(StatusN, Len(last.feed)))

(* C6 as amended: min(N, L) items when N >= 0; for a negative N the slice  *)
(* drops the last |N| entries, leaving max(L + N, 0) items.                *)
C6_ItemsBySlice ==
  last.handler = "status" =>
     StatusSends(IF StatusN >= 0 THEN Min(StatusN, Len(last.feed))
                 ELSE Max(Len(last.feed) + StatusN, 0))

\* a negative --entries over a feed long enough to leave an item
C6_Witness ==
  /\ last.handler = "status"
  /\ last.cmd.entries = Some(0 - 1)
  /\ Len(last.feed) = 2
  /\ SentNow[1].text = ItemText(1, last.feed[1]) \o " Source: " \o StatusUrl

(* C7: aws_reboot / aws_terminate on an existing instance make exactly one *)
(* SDK call (reboot, resp. destroy) on that instance and send exactly one  *)
(* message: the success text for a truthy result, 'Unable to complete      *)
(* request.' for a falsy one.                                              *)
SdkOp == IF last.handler = "reboot" THEN "reboot" ELSE "destroy"
OtherOp == IF last.handler = "reboot" THEN "destroy" ELSE "reboot"
SuccessText ==
  IF last.handler = "reboot"
  THEN last.name \o ": Successfully sent request to reboot."
  ELSE last.name \o ": Successfully sent request to terminate instance."

\* C7: one SDK call on the instance found, one message, its text decided
\* by the result
C7_OneCallOneMessage ==
  (last.handler \in {"reboot", "terminate"} /\ last.found) =>
     /\ Len(Calls(trace, SdkOp)) = 1
     /\ Len(Calls(trace, OtherOp)) = 0
     /\ LET target == Calls(trace, SdkOp)[1].arg IN
        IF last.handler = "terminate" /\ last.result
        THEN \A i \in 1..Len(cloud) : cloud[i].id # target
        ELSE \E i \in NamedNodes(last.name) : cloud[i].id = target
     /\ Len(SentNow) = 1
     /\ (last.result => SentNow[1].text = SuccessText)
     /\ (~last.result =>
           SentNow[1].text = last.name \o ": Unable to complete request.")

\* a terminate the provider refuses
C7_Witness ==
  /\ last.handler = "terminate"
  /\ last.found
  /\ ~last.result
  /\ Len(Calls(trace, "destroy")) = 1

(* C8: no handler writes the configuration, and aws_create takes the       *)
(* defaults of ami, subnet_id, route_table_id, instance_type, keypair and  *)
(* puppet from the configuration as it is at the call.                     *)
C8_ConfigImmutableDefaults ==
  /\ config = loaded
  /\ (last.handler = "create" /\ Len(Calls(trace, "create_node")) > 0) =>
       LET a == Calls(trace, "create_node")[1].arg
           c == last.cmd
       IN /\ IsNone(c.ami) => a.image = config.ami
          /\ IsNone(c.subnet_id) =>
               (a.ex_subnet.subnet_id = config.subnet_id
                  /\ a.ex_subnet.id = config.subnet_id)
          /\ IsNone(c.route_table_id) =>
               a.ex_subnet.route_table_id = config.route_table_id
          /\ IsNone(c.instance_type) => a.size = config.instance_type
          /\ IsNone(c.keypair) => a.ex_keyname = config.keypair
          /\ (~c.puppet /\ last.outcome = "returned") =>
               ((\E i \in 1..Len(SentTexts) :
                    SentTexts[i] = PuppetText(c.positional[1]))
                 <=> config.puppet)

\* a create with no option on the line, under a configuration with puppet on
C8_Witness ==
  /\ last.handler = "create"
  /\ last.outcome = "returned"
  /\ PlainCmd(last.cmd)
  /\ config.puppet
  /\ Calls(trace, "create_node")[1].arg.ex_keyname = "key-cfg"

(* C9: aws_create sends nothing before create_node has returned, nothing   *)
(* at all when parsing, the instance-type lookup or create_node fails, and *)
(* on success the messages [1/3], [2/3], optional puppet, [3/3], details   *)
(* in that order, after exactly one create_node call.                      *)
ProgressTexts(vmname, puppet) ==
  << vmname \o ": [1/3] Creating instance",
     vmname \o ": [2/3] Running post setup" >>
  \o (IF puppet THEN << PuppetText(vmname) >> ELSE << >>)
  \o << vmname \o ": [3/3] Request completed",
        vmname \o ": " >>

\* C9: no send before create_node returned, none on failure, the five
\* (or four) messages in order on success, one create_node call
C9_CreateMessagesOrdered ==
  last.handler = "create" =>
     /\ Len(Calls(trace, "create_node")) <= 1
     /\ \A i \in 1..Len(trace) :
          trace[i].kind = "send" =>
            \E j \in 1..(i - 1) :
               trace[j].kind = "call" /\ trace[j].op = "create_node"
     /\ last.outcome # "returned" => SentNow = <<>>
     /\ last.outcome = "returned" =>
          /\ Len(Calls(trace, "create_node")) = 1
          /\ \E p \in BOOLEAN :
               SentTexts = ProgressTexts(last.cmd.positional[1], p)
          /\ \A i \in 1..(Len(SentNow) - 1) : SentNow[i].obj = <<>>
          /\ \E i \in NamedNodes(last.cmd.positional[1]) :
               SentNow[Len(SentNow)].obj = <<Descriptor(cloud[i])>>

\* a successful create that took the puppet step
C9_Witness ==
  /\ last.handler = "create"
  /\ last.outcome = "returned"
  /\ Len(SentNow) = 5
  /\ SentTexts[3] = PuppetText(last.cmd.positional[1])
====
